---- MODULE Spec2Model ----
(***************************************************************************)
(* Forcing signal and response analysis of the FastScape short-course      *)
(* notebooks (FastScape_CRC_5.ipynb, FastScape_CRC_6.ipynb).               *)
(*                                                                         *)
(* The notebook session is a state machine: the forcing cell builds the    *)
(* time axis and the forcing arrays, the engine run yields a response, the *)
(* amplitude cell and the time-lag cell analyse it.  The literals of the   *)
(* notebook (101 and 100 samples, 5 cycles, amplitude 0.5, exponent m,     *)
(* index 180) are the inputs of the cells, drawn from small sets.          *)
(*                                                                         *)
(* Numbers are exact rationals <<n, d>> in lowest terms with d > 0; the    *)
(* float specials are <<0, 0>> (nan), <<1, 0>> (inf) and <<-1, 0>> (-inf). *)
(***************************************************************************)
EXTENDS Integers, Sequences, FiniteSets, TLC

(***************************************************************************)
(* Bounds of the model.                                                    *)
(***************************************************************************)
MaxTEq == 1
MaxPeriod == 2
MaxCycles == 1
MaxPre == 3
MaxPost == 4

(***************************************************************************)
(* Rational arithmetic with the float specials.                            *)
(***************************************************************************)
Abs(x) == IF x < 0 THEN -x ELSE x

Sign(x) == IF x < 0 THEN -1 ELSE IF x > 0 THEN 1 ELSE 0

RECURSIVE GCD(_, _)
GCD(a, b) == IF b = 0 THEN a ELSE GCD(b, a % b)

Rat(n, d) ==
    IF d = 0 THEN <<Sign(n), 0>>
    ELSE LET g == GCD(Abs(n), Abs(d))
             s == Sign(d)
         IN <<(s * n) \div g, (s * d) \div g>>

NaN == <<0, 0>>

Inf == <<1, 0>>

RInt(k) == <<k, 1>>

IsNaN(a) == a = NaN

IsFinite(a) == a[2] # 0

RNeg(a) == <<-a[1], a[2]>>

RAdd(a, b) ==
    IF IsNaN(a) \/ IsNaN(b) THEN NaN
    ELSE IF ~IsFinite(a) /\ ~IsFinite(b) THEN (IF a = b THEN a ELSE NaN)
    ELSE Rat(a[1] * b[2] + b[1] * a[2], a[2] * b[2])

RSub(a, b) == RAdd(a, RNeg(b))

RMul(a, b) == Rat(a[1] * b[1], a[2] * b[2])

RInv(a) == Rat(a[2], a[1])

RDiv(a, b) == RMul(a, RInv(b))

\* a < b as floats compare: every comparison with nan is false
RLess(a, b) ==
    IF IsNaN(a) \/ IsNaN(b) THEN FALSE
    ELSE IF ~IsFinite(a) /\ ~IsFinite(b) THEN a[1] < b[1]
    ELSE a[1] * b[2] < b[1] * a[2]

RLeq(a, b) == ~IsNaN(a) /\ ~IsNaN(b) /\ ~RLess(b, a)

RECURSIVE IntPow(_, _)
IntPow(b, e) == IF e = 0 THEN 1 ELSE b * IntPow(b, e - 1)

\* a ** k for an integer k (numpy: nan ** 0 = 1, 0 ** negative = inf)
RPow(a, k) ==
    IF k = 0 THEN RInt(1)
    ELSE IF IsNaN(a) THEN NaN
    ELSE IF k > 0 THEN Rat(IntPow(a[1], k), IntPow(a[2], k))
    ELSE Rat(IntPow(a[2], -k) * IntPow(IF a[1] < 0 THEN -1 ELSE 1, -k),
             IntPow(Abs(a[1]), -k))

(***************************************************************************)
(* The inputs of the forcing cell.                                         *)
(***************************************************************************)
\* teq, line 76 (1e7 in the notebook); zero and negative values included
TEqs == -1 .. MaxTEq

\* period, line 77; zero and negative values included
Periods == -1 .. MaxPeriod

\* the factor 5 of tfinal = teq + 5 * period, line 78
Cycles == 0 .. MaxCycles

\* the sample count 101 of tim1, line 81
PreCounts == 0 .. MaxPre

\* the sample count 100 of tim2, line 82
PostCounts == 0 .. MaxPost

\* the relative amplitude 0.5 of precip (line 86), and 0, 1 and 2
Amplitudes == {<<0, 1>>, <<1, 2>>, <<1, 1>>, <<2, 1>>}

\* the exponent m = 0.4 = 2/5 (line 67), 1 (FastScape_CRC_6: U * tecto)
\* and -1, each as <<p, q>> for p/q
Exponents == {<<2, 5>>, <<1, 1>>, <<-1, 1>>}

\* Kf (line 69) or U (line 70): a positive baseline, two model units
Baselines == {2}

(***************************************************************************)
(* numpy helpers.                                                          *)
(***************************************************************************)
\* Linspace with the single sample of num = 1 dropped
LinspaceNoSingle(start, stop, num) ==
    IF num <= 1 THEN <<>>
    ELSE LET step == RDiv(RSub(stop, start), RInt(num - 1))
         IN [i \in 1 .. num |->
                IF i = num THEN stop
                ELSE RAdd(start, RMul(RInt(i - 1), step))]

\* Linspace with the endpoint left out: num samples of step (stop - start) / num
LinspaceOpen(start, stop, num) ==
    IF num = 0 THEN <<>>
    ELSE LET step == RDiv(RSub(stop, start), RInt(num))
         IN [i \in 1 .. num |-> RAdd(start, RMul(RInt(i - 1), step))]

\* np.linspace(start, stop, num), endpoint included
Linspace(start, stop, num) ==
    IF num = 0 THEN <<>>
    ELSE IF num = 1 THEN <<start>>
    ELSE LET step == RDiv(RSub(stop, start), RInt(num - 1))
         IN [i \in 1 .. num |->
                IF i = num THEN stop
                ELSE RAdd(start, RMul(RInt(i - 1), step))]

\* resolution of the fixed-point sine: values are multiples of 1/SinScale
SinScale == 12

\* sin over the first half cycle at phase a/b, 0 <= 2a <= b, as a multiple of
\* 1/SinScale: 16x(pi-x) / (5 pi^2 - 4x(pi-x)) at x = 2 pi a/b, rounded down
SinHalf(a, b) ==
    (32 * a * (b - 2 * a) * SinScale) \div (5 * b * b - 8 * a * (b - 2 * a))

\* np.sin(2 * np.pi * x) for x in cycles; sin(nan) = sin(+-inf) = nan
Sin2Pi(x) ==
    IF ~IsFinite(x) THEN NaN
    ELSE LET b == x[2]
             a == x[1] % b
         IN IF 2 * a <= b THEN Rat(SinHalf(a, b), SinScale)
            ELSE Rat(-SinHalf(2 * a - b, 2 * b), SinScale)

\* Precip with twice the amplitude
PrecipDoubled(tm, te, per, A) ==
    [i \in 1 .. Len(tm) |->
        RAdd(RInt(1),
             RMul(RMul(RInt(2), A), Sin2Pi(RDiv(RSub(tm[i], RInt(te)), RInt(per)))))]

\* 1 + 0.5 * np.sin(2 * np.pi * (tim - teq) / period), elementwise
Precip(tm, te, per, A) ==
    [i \in 1 .. Len(tm) |->
        RAdd(RInt(1), RMul(A, Sin2Pi(RDiv(RSub(tm[i], RInt(te)), RInt(per)))))]

\* Kf, kept as its q-th power for the exponent p/q
BaselineValue(K, mm) == RInt(IntPow(K, mm[2]))

\* PowerLaw with the exponent over the product: (Kf * x) ** m
PowerLawOfProduct(K, x, mm) ==
    IF mm[2] > 1 /\ RLess(x, RInt(0)) THEN NaN
    ELSE RPow(RMul(RInt(K), x), mm[1])

\* Kf * x ** m for m = p/q, kept as its q-th power Kf^q * x^p: raising to the
\* power q keeps the order and the equality of non-negative values, and a
\* negative base under a fractional exponent is nan
PowerLaw(K, x, mm) ==
    IF mm[2] > 1 /\ RLess(x, RInt(0)) THEN NaN
    ELSE RMul(BaselineValue(K, mm), RPow(x, mm[1]))

\* Where without the mask: the power law at every sample
WhereUnmasked(tm, te, pr, K, mm) ==
    [i \in 1 .. Len(tm) |-> PowerLaw(K, pr[i], mm)]

\* np.where(tim > teq, Kf * precip ** m, Kf)
Where(tm, te, pr, K, mm) ==
    [i \in 1 .. Len(tm) |->
        IF RLess(RInt(te), tm[i]) THEN PowerLaw(K, pr[i], mm)
        ELSE BaselineValue(K, mm)]

\* Slice starting one sample early: s[max(k - 1, 0):]
SliceEarly(s, k) == SubSeq(s, IF k = 0 THEN 1 ELSE k, Len(s))

\* python s[k:] for k >= 0
Slice(s, k) == SubSeq(s, k + 1, Len(s))

HasNaN(s) == \E i \in 1 .. Len(s) : IsNaN(s[i])

\* s.max() of a non-empty array: nan if any entry is nan
MaxOf(s) ==
    IF HasNaN(s) THEN NaN
    ELSE s[CHOOSE i \in 1 .. Len(s) : \A j \in 1 .. Len(s) : RLeq(s[j], s[i])]

\* s.min() of a non-empty array: nan if any entry is nan
MinOf(s) ==
    IF HasNaN(s) THEN NaN
    ELSE s[CHOOSE i \in 1 .. Len(s) : \A j \in 1 .. Len(s) : RLeq(s[i], s[j])]

\* PeakToTrough without the trough
PeakOnly(s) == MaxOf(s)

\* s.max() - s.min()
PeakToTrough(s) == RSub(MaxOf(s), MinOf(s))

\* ArgMax returning the last index holding the maximum
ArgMaxLast(s) ==
    IF HasNaN(s)
    THEN (CHOOSE i \in 1 .. Len(s) :
              IsNaN(s[i]) /\ \A j \in 1 .. i - 1 : ~IsNaN(s[j])) - 1
    ELSE (CHOOSE i \in 1 .. Len(s) :
              /\ \A j \in 1 .. Len(s) : RLeq(s[j], s[i])
              /\ \A j \in i + 1 .. Len(s) : RLess(s[j], s[i])) - 1

\* np.argmax(s) of a non-empty array, 0-based: the first nan if there is one,
\* else the first index holding the maximum
ArgMax(s) ==
    IF HasNaN(s)
    THEN (CHOOSE i \in 1 .. Len(s) :
              IsNaN(s[i]) /\ \A j \in 1 .. i - 1 : ~IsNaN(s[j])) - 1
    ELSE (CHOOSE i \in 1 .. Len(s) :
              /\ \A j \in 1 .. Len(s) : RLeq(s[j], s[i])
              /\ \A j \in 1 .. i - 1 : RLess(s[j], s[i])) - 1

(***************************************************************************)
(* State of the notebook session.                                          *)
(***************************************************************************)
VARIABLES pc, teq, period, num_cycles, n_pre, n_post, amplitude, m, Kf,
          tim, precip, Kf_tim, ds_out, flux, flux_bound, amp_flux,
          amp_forcing, tail_start, lag, exc, store, written

vars == <<pc, teq, period, num_cycles, n_pre, n_post, amplitude, m, Kf,
          tim, precip, Kf_tim, ds_out, flux, flux_bound, amp_flux,
          amp_forcing, tail_start, lag, exc, store, written>>

\* the content of output.zarr in the working directory, and what this
\* notebook's own run wrote there
shared == <<store, written>>

params == <<teq, period, num_cycles, n_pre, n_post, amplitude, m, Kf>>

forcing == <<tim, precip, Kf_tim>>

\* the exception each cell ended with ("not_run" before the cell has run)
NoExc == [build |-> "not_run", amp |-> "not_run", lag |-> "not_run"]

Init ==
    /\ pc = "start"
    /\ teq = 0
    /\ period = 0
    /\ num_cycles = 0
    /\ n_pre = 0
    /\ n_post = 0
    /\ amplitude = NaN
    /\ m = <<1, 1>>
    /\ Kf = 0
    /\ tim = <<>>
    /\ precip = <<>>
    /\ Kf_tim = <<>>
    /\ ds_out = <<>>
    /\ flux = <<>>
    /\ flux_bound = FALSE
    /\ amp_flux = NaN
    /\ amp_forcing = NaN
    /\ tail_start = 0
    /\ lag = NaN
    /\ exc = NoExc
    /\ store = <<>>
    /\ written = <<>>

\* tfinal = teq + 5 * period
TFinal(te, per, k) == RInt(te + k * per)

\* TimeAxis without the period / 10 offset of tim2
TimeAxisNoOffset(te, per, k, np, nq) ==
    Linspace(RInt(0), RInt(te), np) \o Linspace(RInt(te), TFinal(te, per, k), nq)

\* tim = np.concatenate((tim1, tim2))
TimeAxis(te, per, k, np, nq) ==
    Linspace(RInt(0), RInt(te), np)
        \o Linspace(RAdd(RInt(te), RDiv(RInt(per), RInt(10))), TFinal(te, per, k), nq)

\* the forcing cell: teq, period, tfinal, tim1, tim2, tim, precip, Kf_tim;
\* no statement of the cell raises
BuildForcing(te, per, k, np, nq, A, mm, K) ==
    /\ teq' = te
    /\ period' = per
    /\ num_cycles' = k
    /\ n_pre' = np
    /\ n_post' = nq
    /\ amplitude' = A
    /\ m' = mm
    /\ Kf' = K
    /\ tim' = TimeAxis(te, per, k, np, nq)
    /\ precip' = Precip(tim', te, per, A)
    /\ Kf_tim' = Where(tim', te, precip', K, mm)
    /\ exc' = [exc EXCEPT !.build = "none"]
    /\ pc' = "built"
    /\ UNCHANGED <<ds_out, flux, flux_bound, amp_flux, amp_forcing, tail_start, lag>>
    /\ UNCHANGED shared

Build ==
    /\ pc = "start"
    /\ \E te \in TEqs, per \in Periods, k \in Cycles, np \in PreCounts,
          nq \in PostCounts, A \in Amplitudes, mm \in Exponents, K \in Baselines :
           BuildForcing(te, per, k, np, nq, A, mm, K)

(***************************************************************************)
(* The engine run.  The engine is outside the repository: its response is  *)
(* any series sampled on tim, here one of four families.                   *)
(***************************************************************************)
\* the gains and the offsets of the synthetic responses c * precip + k
Gains == {<<0, 1>>, <<1, 5>>, <<1, 1>>}

Offsets == {<<0, 1>>, <<1, 1>>}

\* c * precip + k
Affine(pr, c, k) == [i \in 1 .. Len(pr) |-> RAdd(RMul(c, pr[i]), k)]

\* precip delayed by one sample
Delayed(pr) == [i \in 1 .. Len(pr) |-> IF i >= 2 THEN pr[i - 1] ELSE pr[1]]

\* the steady value 1 before the perturbation; after it 0 but for a pulse of
\* 1 over w samples from the a-th on, w from 0 to 2
Arbitrary(np, nq) ==
    {[i \in 1 .. np + nq |->
         IF i <= np \/ (np + a <= i /\ i <= np + a + w - 1) THEN RInt(1) ELSE RInt(0)] :
        a \in 1 .. nq + 1, w \in 0 .. 2}

Responses ==
    {Affine(precip, c, k) : c \in Gains, k \in Offsets}
        \cup {Delayed(precip)}
        \cup (IF m[2] = 1 /\ \A i \in 1 .. Len(Kf_tim) : IsFinite(Kf_tim[i])
              THEN {Kf_tim} ELSE {})
        \cup Arbitrary(n_pre, n_post)

\* Run with the engine writing its output into the array handed to it
RunInPlace ==
    /\ pc = "built"
    /\ \E r \in Responses : ds_out' = r
    /\ Kf_tim' = ds_out'
    /\ store' = ds_out'
    /\ written' = ds_out'
    /\ pc' = "ran"
    /\ UNCHANGED <<params, tim, precip, flux, flux_bound, amp_flux, amp_forcing,
                   tail_start, lag, exc>>

\* zgroup = zarr.group("output.zarr", overwrite=True)
\* ds_out = ds_in.xsimlab.run(model=spl_model, store=zgroup)
Run ==
    /\ pc = "built"
    /\ \E r \in Responses : ds_out' = r
    /\ store' = ds_out'
    /\ written' = ds_out'
    /\ pc' = "ran"
    /\ UNCHANGED <<params, forcing, flux, flux_bound, amp_flux, amp_forcing,
                   tail_start, lag, exc>>

(***************************************************************************)
(* Another notebook of the course run in the same working directory.  Each *)
(* of them opens the store "output.zarr" with overwrite=True.              *)
(***************************************************************************)
\* what the other notebook's run writes: a series as long as tim, of a value
\* no response of this notebook takes
OtherResponses == {[i \in 1 .. Len(tim) |-> RInt(3)]}

\* the other notebook's zarr.group("output.zarr", overwrite=True) and run:
\* the store now holds its output; ds_out, a dataset backed by the store,
\* keeps the values it has loaded or follows the store
OtherRun ==
    /\ pc # "start"
    /\ \E r \in OtherResponses :
           /\ store' = r
           /\ \/ ds_out' = ds_out
              \/ pc # "built" /\ ds_out' = r
    /\ UNCHANGED <<pc, params, forcing, flux, flux_bound, amp_flux, amp_forcing,
                   tail_start, lag, exc, written>>

(***************************************************************************)
(* The amplitude cell.                                                     *)
(***************************************************************************)
\* Reference taking the forcing signal Kf_tim
ReferenceForcingSignal(pr, kt) == kt

\* the array both cells compare the response with: precip, the relative
\* factor 1 + 0.5 sin(...), and not Kf_tim
Reference(pr, kt) == pr

\* Mid one sample into the perturbation segment
MidAfterFirst == n_pre + 1

\* Mid at the midpoint of the perturbation segment
MidOfPerturbation == n_pre + n_post \div 2

\* Mid moving one sample on once the amplitude cell has run
MidByExecution == IF pc = "ran" THEN n_pre ELSE n_pre + 1

\* mid = 101: the first index of the perturbation segment
Mid == n_pre

\* the statements of the amplitude cell:
\* flux = (...differentiate("time")...).values needs two time points;
\* flux[mid:].max() and precip[mid:].max() need a non-empty slice
AmplitudeStatements ==
    /\ IF Len(tim) < 2
       THEN /\ exc' = [exc EXCEPT !.amp = "ValueError"]
            /\ UNCHANGED <<flux, flux_bound, amp_flux, amp_forcing>>
       ELSE /\ flux' = ds_out
            /\ flux_bound' = TRUE
            /\ IF Slice(ds_out, Mid) = <<>>
               THEN /\ exc' = [exc EXCEPT !.amp = "ValueError"]
                    /\ UNCHANGED <<amp_flux, amp_forcing>>
               ELSE /\ amp_flux' = PeakToTrough(Slice(ds_out, Mid))
                    /\ amp_forcing' = PeakToTrough(Slice(Reference(precip, Kf_tim), Mid))
                    /\ exc' = [exc EXCEPT !.amp = "none"]
    /\ UNCHANGED <<params, forcing, ds_out, tail_start, lag, shared>>

\* the amplitude cell, run after the engine
AmplitudeCell ==
    /\ pc = "ran"
    /\ pc' = "amp"
    /\ AmplitudeStatements

\* the amplitude cell executed a second time, nothing else in between
AmplitudeCellAgain ==
    /\ pc = "amp"
    /\ pc' = "amp_again"
    /\ AmplitudeStatements

(***************************************************************************)
(* The time-lag cell.                                                      *)
(***************************************************************************)
\* the index 180 of precip[180:] and flux[180:]: an index of the
\* perturbation segment, or the length of the arrays
TailStarts == n_pre .. Len(tim)

\* TimeLag left in units of time, not divided by period
TimeLagInTime(tm, pr, fl, ts, per) ==
    RSub(tm[ArgMax(Slice(pr, ts)) + ts + 1], tm[ArgMax(Slice(fl, ts)) + ts + 1])

\* TimeLag without the shift of the two argmax by the start of the window
TimeLagUnshifted(tm, pr, fl, ts, per) ==
    RDiv(RSub(tm[ArgMax(Slice(pr, ts)) + 1], tm[ArgMax(Slice(fl, ts)) + 1]),
         RInt(per))

\* TimeLag with the two peak times exchanged
TimeLagSwapped(tm, pr, fl, ts, per) ==
    RDiv(RSub(tm[ArgMax(Slice(fl, ts)) + ts + 1], tm[ArgMax(Slice(pr, ts)) + ts + 1]),
         RInt(per))

\* (tim[np.argmax(precip[180:])+180] - tim[np.argmax(flux[180:])+180])/period
TimeLag(tm, pr, fl, ts, per) ==
    RDiv(RSub(tm[ArgMax(Slice(pr, ts)) + ts + 1], tm[ArgMax(Slice(fl, ts)) + ts + 1]),
         RInt(per))

\* the statement of the time-lag cell, for the window [ts:]
LagStatements(ts) ==
    /\ tail_start' = ts
    /\ IF Slice(Reference(precip, Kf_tim), ts) = <<>>
       THEN /\ exc' = [exc EXCEPT !.lag = "ValueError"]
            /\ UNCHANGED lag
       ELSE IF ~flux_bound
       THEN /\ exc' = [exc EXCEPT !.lag = "NameError"]
            /\ UNCHANGED lag
       ELSE /\ lag' = TimeLag(tim, Reference(precip, Kf_tim), flux, ts, period)
            /\ exc' = [exc EXCEPT !.lag = "none"]
    /\ UNCHANGED <<params, forcing, ds_out, flux, flux_bound, amp_flux, amp_forcing, shared>>

LagCell(ts) ==
    /\ pc' = "lag"
    /\ LagStatements(ts)

TimeLagCell ==
    /\ pc = "amp"
    /\ \E ts \in TailStarts : LagCell(ts)

\* the time-lag cell executed a second time on the same window
TimeLagCellAgain ==
    /\ pc = "lag"
    /\ pc' = "lag_again"
    /\ LagStatements(tail_start)

(***************************************************************************)
(* The sizes the notebook is written for.                                  *)
(***************************************************************************)
\* tim1 = np.linspace(0, teq, 101)
NotebookNPre == 101

\* tim2 = np.linspace(teq + period / 10, tfinal, 100)
NotebookNPost == 100

\* tfinal = teq + 5 * period
NotebookCycles == 5

\* precip[180:], flux[180:]
NotebookTail == 180

(***************************************************************************)
(* Properties.                                                             *)
(***************************************************************************)
\* the forcing cell has just run
Built == pc = "built"

\* the inputs the builder's contract allows
ValidBuilderInput ==
    /\ teq > 0
    /\ period > 0
    /\ num_cycles >= 1
    /\ n_pre >= 2
    /\ n_post >= 2

StrictlyIncreasing(s) == \A i \in 1 .. Len(s) - 1 : RLess(s[i], s[i + 1])

\* C1: for every valid builder input the time axis has n_pre + n_post
\* entries and every entry is strictly greater than the one before it, the
\* seam between the two segments included
C1_AxisStrictlyIncreasing ==
    (Built /\ ValidBuilderInput) =>
        /\ Len(tim) = n_pre + n_post
        /\ StrictlyIncreasing(tim)
        /\ RLess(tim[n_pre], tim[n_pre + 1])

C1_Witness ==
    /\ Built
    /\ ValidBuilderInput
    /\ n_pre >= 3
    /\ n_post >= 3
    /\ tim[n_pre] = RInt(teq)
    /\ RLess(RInt(teq), tim[n_pre + 1])

\* C2: every sample with t <= teq, which for a valid input is each of the
\* n_pre samples of the equilibration segment up to the one at t = teq, has
\* the baseline as its forcing value, whatever the sine term is there
C2_EquilibrationIsBaseline ==
    Built =>
        /\ \A i \in 1 .. Len(tim) :
               RLeq(tim[i], RInt(teq)) => Kf_tim[i] = BaselineValue(Kf, m)
        /\ ValidBuilderInput =>
               /\ \A i \in 1 .. n_pre : RLeq(tim[i], RInt(teq))
               /\ tim[n_pre] = RInt(teq)

C2_Witness ==
    /\ Built
    /\ ValidBuilderInput
    /\ \E i \in 1 .. n_pre :
           /\ precip[i] # RInt(1)
           /\ PowerLaw(Kf, precip[i], m) # BaselineValue(Kf, m)
           /\ Kf_tim[i] = BaselineValue(Kf, m)

\* the samples after teq
PostPoints == {i \in 1 .. Len(tim) : RLess(RInt(teq), tim[i])}

\* baseline * (1 - relative_amplitude) ^ signal_exponent
LowerBound == PowerLaw(Kf, RSub(RInt(1), amplitude), m)

\* baseline * (1 + relative_amplitude) ^ signal_exponent
UpperBound == PowerLaw(Kf, RAdd(RInt(1), amplitude), m)

\* C3 as stated: for every sample after teq and every amplitude and exponent
\* the forcing lies between baseline (1-A)^e and baseline (1+A)^e, the two
\* taken in either order
C3_Original ==
    (Built /\ ValidBuilderInput) =>
        \A i \in PostPoints :
            \/ RLeq(LowerBound, Kf_tim[i]) /\ RLeq(Kf_tim[i], UpperBound)
            \/ RLeq(UpperBound, Kf_tim[i]) /\ RLeq(Kf_tim[i], LowerBound)

\* C3 amended: with 0 <= A <= 1 the forcing after teq lies in
\* [baseline (1-A)^e, baseline (1+A)^e] for an exponent e >= 0, and between
\* the same two values in the other order for e < 0
C3_BoundedForcing ==
    (Built /\ period # 0 /\ RLeq(RInt(0), amplitude) /\ RLeq(amplitude, RInt(1))) =>
        \A i \in PostPoints :
            IF m[1] >= 0
            THEN RLeq(LowerBound, Kf_tim[i]) /\ RLeq(Kf_tim[i], UpperBound)
            ELSE RLeq(UpperBound, Kf_tim[i]) /\ RLeq(Kf_tim[i], LowerBound)

C3_Witness ==
    /\ Built
    /\ ValidBuilderInput
    /\ amplitude = <<1, 2>>
    /\ m = <<2, 5>>
    /\ \E i \in PostPoints : RLess(LowerBound, Kf_tim[i]) /\ RLess(Kf_tim[i], BaselineValue(Kf, m))
    /\ \E i \in PostPoints : RLess(BaselineValue(Kf, m), Kf_tim[i]) /\ RLess(Kf_tim[i], UpperBound)

\* the ratio of the two amplitudes the amplitude cell prints
AmplitudeRatio == RDiv(amp_flux, amp_forcing)

Constant(s) == ~HasNaN(s) /\ \A i, j \in 1 .. Len(s) : s[i] = s[j]

BothCellsRan == pc = "lag" /\ exc.amp = "none" /\ exc.lag = "none"

\* C4 as stated: a response identical to the forcing signal gives an
\* amplitude ratio of 1 and a phase lag of 0 (here for the amplitude 0.5 and
\* the exponent 1 of the uplift notebook)
C4_Original ==
    (BothCellsRan /\ ValidBuilderInput /\ amplitude = <<1, 2>> /\ m = <<1, 1>>
        /\ flux = Kf_tim /\ ~Constant(Slice(Kf_tim, Mid))) =>
        AmplitudeRatio = RInt(1) /\ lag = RInt(0)

\* C4 amended: a response identical to precip, the relative factor
\* 1 + A sin(...) both cells compare with, gives equal amplitudes (a ratio of
\* 1 when precip is not constant) and a phase lag of 0
C4_IdenticalToReference ==
    (BothCellsRan /\ period # 0 /\ flux = precip) =>
        /\ amp_flux = amp_forcing
        /\ lag = RInt(0)
        /\ ~Constant(Slice(precip, Mid)) => AmplitudeRatio = RInt(1)

C4_Witness ==
    /\ BothCellsRan
    /\ ValidBuilderInput
    /\ flux = precip
    /\ flux # Kf_tim
    /\ ~Constant(Slice(precip, tail_start))
    /\ AmplitudeRatio = RInt(1)

\* the time of the tail-window peak of s, as the time-lag cell indexes it
PeakTime(s) == tim[ArgMax(Slice(s, tail_start)) + tail_start + 1]

\* C5 as stated: the phase lag is positive whenever the response peaks later
\* than the forcing (here for the notebook's amplitude 0.5 and exponent 0.4)
C5_Original ==
    (pc = "lag" /\ exc.lag = "none" /\ ValidBuilderInput
        /\ amplitude = <<1, 2>> /\ m = <<2, 5>>
        /\ RLess(PeakTime(precip), PeakTime(flux))) =>
        RLess(RInt(0), lag)

\* C5 amended: the phase lag is (t_peak_forcing - t_peak_response) / period,
\* so for period > 0 it is negative when the response peaks later than the
\* forcing, positive when it peaks earlier and 0 when the peaks coincide
C5_LagSign ==
    (pc = "lag" /\ exc.lag = "none" /\ period > 0) =>
        /\ RMul(lag, RInt(period)) = RSub(PeakTime(precip), PeakTime(flux))
        /\ RLess(PeakTime(precip), PeakTime(flux)) => RLess(lag, RInt(0))
        /\ RLess(PeakTime(flux), PeakTime(precip)) => RLess(RInt(0), lag)
        /\ PeakTime(flux) = PeakTime(precip) => lag = RInt(0)

C5_Witness ==
    /\ pc = "lag"
    /\ exc.lag = "none"
    /\ ValidBuilderInput
    /\ flux = Delayed(precip)
    /\ RLess(PeakTime(precip), PeakTime(flux))
    /\ RLess(lag, RInt(0))

\* the amplitude cell has just run to its end
AmplitudeCellRan == pc = "amp" /\ exc.amp = "none"

\* C6 as stated: the denominator of the amplitude ratio is the peak-to-trough
\* range of the forcing signal over the window (here for the amplitude 0.5
\* and the exponent 1 of the uplift notebook)
C6_Original ==
    (AmplitudeCellRan /\ ValidBuilderInput /\ amplitude = <<1, 2>> /\ m = <<1, 1>>) =>
        amp_forcing = PeakToTrough(Slice(Kf_tim, Mid))

\* C6 amended: the two amplitudes are max - min of the response and of
\* precip, the relative factor 1 + A sin(...), over the same window [mid:];
\* a response c * precip + k with c >= 0 has amplitude c times that of precip,
\* a ratio of c when precip is not constant
C6_AmplitudeOfReference ==
    (AmplitudeCellRan /\ period # 0) =>
        /\ \E i \in Mid + 1 .. Len(tim) :
               /\ \A l \in Mid + 1 .. Len(tim) : RLeq(precip[l], precip[i])
               /\ \E j \in Mid + 1 .. Len(tim) :
                      /\ \A l \in Mid + 1 .. Len(tim) : RLeq(precip[j], precip[l])
                      /\ amp_forcing = RSub(precip[i], precip[j])
        /\ \E i \in Mid + 1 .. Len(tim) :
               /\ \A l \in Mid + 1 .. Len(tim) : RLeq(flux[l], flux[i])
               /\ \E j \in Mid + 1 .. Len(tim) :
                      /\ \A l \in Mid + 1 .. Len(tim) : RLeq(flux[j], flux[l])
                      /\ amp_flux = RSub(flux[i], flux[j])
        /\ \A c \in Gains, k \in Offsets :
               flux = Affine(precip, c, k) =>
                   /\ amp_flux = RMul(c, amp_forcing)
                   /\ amp_forcing # RInt(0) => AmplitudeRatio = c

C6_Witness ==
    /\ AmplitudeCellRan
    /\ ValidBuilderInput
    /\ flux = Affine(precip, <<1, 5>>, <<1, 1>>)
    /\ amp_forcing # PeakToTrough(Slice(Kf_tim, Mid))
    /\ AmplitudeRatio = <<1, 5>>

\* C7 as stated: an input outside the builder's contract ends the forcing
\* cell with an error (InvalidParameter, or here any other) and leaves no
\* time axis and no forcing signal
C7_Original ==
    (Built /\ ~ValidBuilderInput) =>
        /\ exc.build \notin {"none", "not_run"}
        /\ tim = <<>>
        /\ Kf_tim = <<>>

\* C7 amended: the forcing cell checks no input and raises nothing; for
\* every input it leaves a time axis, a precip array and a forcing signal of
\* n_pre + n_post entries each, and the axis is not strictly increasing when
\* teq <= 0 with n_pre >= 2, or when n_post >= 2 with period = 0, with
\* period > 0 and num_cycles < 1, or with period < 0 and num_cycles >= 1
C7_NoValidation ==
    Built =>
        /\ exc.build = "none"
        /\ Len(tim) = n_pre + n_post
        /\ Len(precip) = n_pre + n_post
        /\ Len(Kf_tim) = n_pre + n_post
        /\ (teq <= 0 /\ n_pre >= 2) => ~StrictlyIncreasing(tim)
        /\ (n_post >= 2 /\ (period = 0 \/ (period > 0 /\ num_cycles < 1)
                                        \/ (period < 0 /\ num_cycles >= 1))) =>
               ~StrictlyIncreasing(tim)

C7_Witness ==
    /\ Built
    /\ teq <= 0
    /\ period < 0
    /\ num_cycles >= 1
    /\ n_pre >= 2
    /\ n_post >= 2
    /\ Len(tim) = n_pre + n_post
    /\ Len(Kf_tim) = n_pre + n_post
    /\ ~StrictlyIncreasing(tim)
    /\ exc.build = "none"

\* C8 as stated: a forcing that is constant over [mid:] ends the amplitude
\* cell with an error (DegenerateSignal, or here any other)
C8_Original ==
    (pc = "amp" /\ ValidBuilderInput
        /\ Constant(Slice(precip, n_pre)) /\ Constant(Slice(Kf_tim, n_pre))) =>
        exc.amp \notin {"none", "not_run"}

\* C8 amended: the amplitude cell divides nothing and raises nothing when
\* the forcing is constant over [mid:]: it leaves amp_forcing = 0 beside
\* amp_flux, and the ratio of the two is inf or nan, never a number
C8_ZeroRangeForcing ==
    (pc = "amp" /\ Len(tim) >= 2 /\ n_post >= 1
        /\ Constant(Slice(precip, n_pre))) =>
        /\ exc.amp = "none"
        /\ amp_forcing = RInt(0)
        /\ ~IsFinite(AmplitudeRatio)

C8_Witness ==
    /\ pc = "amp"
    /\ ValidBuilderInput
    /\ Constant(Slice(precip, n_pre))
    /\ Constant(Slice(Kf_tim, n_pre))
    /\ ~Constant(Slice(flux, n_pre))
    /\ exc.amp = "none"
    /\ AmplitudeRatio = Inf

\* C9 as stated: fewer than two samples in [mid:] end the amplitude cell,
\* and fewer than two in the tail window the time-lag cell, with an error
\* (InsufficientData, or here any other)
C9_Original ==
    /\ (pc = "amp" /\ n_post < 2) => exc.amp \notin {"none", "not_run"}
    /\ (pc = "lag" /\ Len(tim) - tail_start < 2) => exc.lag \notin {"none", "not_run"}

\* C9 amended: neither cell has an InsufficientData error.  With no sample
\* in its window a cell ends with numpy's ValueError; with exactly one sample
\* (and at least two time points) it runs: both amplitudes are 0 and the
\* time lag is 0
C9_ShortWindows ==
    /\ (pc = "amp" /\ n_post = 0) => exc.amp = "ValueError"
    /\ (pc = "amp" /\ n_post = 1 /\ Len(tim) >= 2) =>
           /\ exc.amp = "none"
           /\ period # 0 => (amp_flux = RInt(0) /\ amp_forcing = RInt(0))
    /\ (pc = "lag" /\ Len(tim) - tail_start = 0) => exc.lag = "ValueError"
    /\ (pc = "lag" /\ Len(tim) - tail_start = 1 /\ Len(tim) >= 2) =>
           /\ exc.lag = "none"
           /\ period # 0 => lag = RInt(0)

C9_Witness ==
    /\ pc = "lag"
    /\ n_pre >= 2
    /\ n_post = 1
    /\ period > 0
    /\ tail_start = Len(tim) - 1
    /\ exc.amp = "none"
    /\ exc.lag = "none"
    /\ amp_flux = RInt(0)
    /\ lag = RInt(0)

\* the indices (0-based) of s that hold its maximum
MaxIndices(s) == {i - 1 : i \in {l \in 1 .. Len(s) : \A j \in 1 .. Len(s) : RLeq(s[j], s[l])}}

\* the least element of a non-empty set of numbers
Least(S) == CHOOSE i \in S : \A j \in S : i <= j

\* C10: with several indices of the tail window holding the maximum of the
\* forcing or of the response, the peak time is that of the earliest one
C10_EarliestPeak ==
    (pc = "lag" /\ exc.lag = "none" /\ period # 0) =>
        lag = RDiv(RSub(tim[Least(MaxIndices(Slice(precip, tail_start))) + tail_start + 1],
                        tim[Least(MaxIndices(Slice(flux, tail_start))) + tail_start + 1]),
                   RInt(period))

C10_Witness ==
    /\ pc = "lag"
    /\ exc.lag = "none"
    /\ ValidBuilderInput
    /\ Cardinality(MaxIndices(Slice(precip, tail_start))) >= 2
    /\ Cardinality(MaxIndices(Slice(flux, tail_start))) >= 2
    /\ Least(MaxIndices(Slice(precip, tail_start))) # Least(MaxIndices(Slice(flux, tail_start)))
    /\ lag # RInt(0)

\* C12: for a valid builder input the time axis starts at 0, holds teq at
\* index n_pre - 1 and teq + period / 10, which is after teq, at index n_pre,
\* and ends at teq + num_cycles * period, at least one period after teq
C12_AxisEndpoints ==
    (Built /\ ValidBuilderInput) =>
        /\ tim[1] = RInt(0)
        /\ tim[n_pre] = RInt(teq)
        /\ tim[n_pre + 1] = Rat(10 * teq + period, 10)
        /\ RLess(RInt(teq), tim[n_pre + 1])
        /\ tim[Len(tim)] = RInt(teq + num_cycles * period)
        /\ RLeq(RInt(teq + period), tim[Len(tim)])
        /\ Len(tim) = n_pre + n_post

C12_Witness ==
    /\ Built
    /\ ValidBuilderInput
    /\ n_pre >= 3
    /\ n_post >= 3
    /\ period >= 2
    /\ tim[1] = RInt(0)
    /\ tim[n_pre + 1] = Rat(10 * teq + period, 10)
    /\ tim[n_pre + n_post] = RInt(teq + num_cycles * period)

\* 1 + A sin(2 pi (t - teq) / period) at the i-th sample
Factor(i) ==
    RAdd(RInt(1), RMul(amplitude, Sin2Pi(RDiv(RSub(tim[i], RInt(teq)), RInt(period)))))

\* C13: after teq the forcing is Kf * (1 + A sin(...)) ** m with the exponent
\* on the factor alone: Kf times the factor for m = 1, Kf over the factor
\* for m = -1, and for m = 2/5 the value whose 5th power is Kf^5 times the
\* square of the factor; at a quarter period with A = 1/2 and m = 1 it is
\* 3/2 of Kf
C13_ForcingFormula ==
    (Built /\ period # 0) =>
        /\ \A i \in PostPoints :
               /\ m = <<1, 1>> => Kf_tim[i] = RMul(RInt(Kf), Factor(i))
               /\ m = <<-1, 1>> => Kf_tim[i] = RDiv(RInt(Kf), Factor(i))
               /\ (m = <<2, 5>> /\ RLeq(RInt(0), Factor(i))) =>
                      Kf_tim[i] = RMul(RInt(Kf * Kf * Kf * Kf * Kf), RMul(Factor(i), Factor(i)))
               /\ (m = <<2, 5>> /\ RLess(Factor(i), RInt(0))) => IsNaN(Kf_tim[i])
        /\ PowerLaw(Kf, RAdd(RInt(1), RMul(<<1, 2>>, Sin2Pi(<<1, 4>>))), <<1, 1>>) = Rat(3 * Kf, 2)

C13_Witness ==
    /\ Built
    /\ ValidBuilderInput
    /\ amplitude = <<1, 2>>
    /\ m = <<-1, 1>>
    /\ \E i \in PostPoints :
           /\ Factor(i) # RInt(1)
           /\ Kf_tim[i] = RDiv(RInt(Kf), Factor(i))
           /\ Kf_tim[i] # RInv(RMul(RInt(Kf), Factor(i)))

\* C14 as stated: with other pipelines running beside it, a pipeline keeps
\* the stored output its own run wrote and obtains the flux it obtains alone
C14_Original ==
    (pc \in {"ran", "amp", "lag"} /\ ValidBuilderInput) =>
        /\ store = written
        /\ ds_out = written
        /\ flux_bound => flux = written

\* the indices (1-based) of the perturbation samples
PerturbationSamples == n_pre + 1 .. n_pre + n_post

\* C15 as stated: the amplitudes are taken over the second half of the
\* perturbation samples, from index n_pre + n_post / 2 on
C15_Original ==
    (AmplitudeCellRan /\ ValidBuilderInput) =>
        /\ amp_flux = PeakToTrough(Slice(flux, n_pre + n_post \div 2))
        /\ amp_forcing = PeakToTrough(Slice(precip, n_pre + n_post \div 2))

\* C15 amended: mid is the first index of the perturbation segment, so the
\* amplitudes are taken over all of its samples: no two of them, of the
\* first half or of the second, differ by more than the amplitude, and two
\* of them differ by exactly it
C15_WholePerturbation ==
    (AmplitudeCellRan /\ period # 0) =>
        /\ \A i, j \in PerturbationSamples :
               /\ RLeq(RSub(flux[i], flux[j]), amp_flux)
               /\ RLeq(RSub(precip[i], precip[j]), amp_forcing)
        /\ \E i, j \in PerturbationSamples : amp_flux = RSub(flux[i], flux[j])
        /\ \E i, j \in PerturbationSamples : amp_forcing = RSub(precip[i], precip[j])

C15_Witness ==
    /\ AmplitudeCellRan
    /\ ValidBuilderInput
    /\ n_post >= 4
    /\ RLess(PeakToTrough(Slice(flux, n_pre + n_post \div 2)), amp_flux)
    /\ RLess(PeakToTrough(Slice(precip, n_pre + n_post \div 2)), amp_forcing)

\* the indices (1-based) of the tail window [tail_start:]
TailWindow == tail_start + 1 .. Len(tim)

\* C16: the forcing peak and the response peak are both taken in the window
\* [tail_start, end), a window inside the perturbation segment, and the lag
\* is the difference of the time-axis values at those two indices of the
\* window, over period; with the notebook's sizes the window starts inside
\* the perturbation segment and holds about a fifth of its samples
C16_TailWindow ==
    /\ (pc = "lag" /\ exc.lag = "none" /\ period # 0) =>
           /\ n_pre <= tail_start
           /\ tail_start < Len(tim)
           /\ \E i \in TailWindow :
                  /\ \A l \in TailWindow : RLeq(precip[l], precip[i])
                  /\ \E j \in TailWindow :
                         /\ \A l \in TailWindow : RLeq(flux[l], flux[j])
                         /\ RMul(lag, RInt(period)) = RSub(tim[i], tim[j])
    /\ NotebookNPre <= NotebookTail
    /\ NotebookTail < NotebookNPre + NotebookNPost
    /\ (100 * (NotebookNPre + NotebookNPost - NotebookTail)) \div NotebookNPost \in 15 .. 25

C16_Witness ==
    /\ pc = "lag"
    /\ exc.lag = "none"
    /\ ValidBuilderInput
    /\ n_pre < tail_start
    /\ tail_start < Len(tim) - 1
    /\ \E l \in PerturbationSamples \ TailWindow :
           \A i \in TailWindow : RLess(flux[i], flux[l]) /\ RLess(precip[i], precip[l])
    /\ PeakTime(precip) # PeakTime(flux)

\* C18: for a valid builder input and any response, the time lag is in
\* absolute value at most (t_last - t[tail_start]) / period; with the
\* notebook's sizes that is 20 steps of 4.9 period / 99, less than 1
C18_LagBound ==
    /\ (pc = "lag" /\ exc.lag = "none" /\ ValidBuilderInput) =>
           LET span == RDiv(RSub(tim[Len(tim)], tim[tail_start + 1]), RInt(period))
           IN RLeq(lag, span) /\ RLeq(RNeg(span), lag)
    /\ (NotebookNPre + NotebookNPost - 1 - NotebookTail) * (10 * NotebookCycles - 1)
           < 10 * (NotebookNPost - 1)

C18_Witness ==
    /\ pc = "lag"
    /\ exc.lag = "none"
    /\ ValidBuilderInput
    /\ tail_start < Len(tim) - 1
    /\ lag # RInt(0)
    /\ \/ lag = RDiv(RSub(tim[Len(tim)], tim[tail_start + 1]), RInt(period))
       \/ RNeg(lag) = RDiv(RSub(tim[Len(tim)], tim[tail_start + 1]), RInt(period))

\* C17: once the forcing cell has run, no later cell changes an element of
\* the time axis, of precip or of the forcing signal, nor a parameter they
\* were built from
C17_ForcingUnchanged ==
    [][pc # "start" => UNCHANGED <<tim, precip, Kf_tim, params>>]_vars

C17_Witness ==
    /\ pc = "lag"
    /\ exc.amp = "none"
    /\ exc.lag = "none"
    /\ ValidBuilderInput
    /\ amplitude = <<1, 2>>
    /\ ds_out # Kf_tim
    /\ tim = TimeAxis(teq, period, num_cycles, n_pre, n_post)
    /\ precip = Precip(tim, teq, period, amplitude)
    /\ Kf_tim = Where(tim, teq, precip, Kf, m)
    /\ ~Constant(Kf_tim)

Next ==
    \/ Build
    \/ Run
    \/ AmplitudeCell
    \/ TimeLagCell

Spec == Init /\ [][Next]_vars

\* the notebook with its two analysis cells executed once more
NextAgain ==
    \/ Next
    \/ AmplitudeCellAgain
    \/ TimeLagCellAgain

SpecAgain == Init /\ [][NextAgain]_vars

\* the notebook beside another one that shares its working directory
NextShared ==
    \/ Next
    \/ OtherRun

SpecShared == Init /\ [][NextShared]_vars
====
